---- MODULE Spec2Model ----
(***************************************************************************)
(* A model of extract_prompts.py: the workflow graph embedded in a PNG and *)
(* the upstream searches that recover the final positive prompt.           *)
(*                                                                         *)
(* Representation.  A Python str is a sequence of one-character strings,   *)
(* so that strip(), len() and the substring test `in` are computed.  A     *)
(* node is referred to by its position in workflow["nodes"] (the Python    *)
(* object); NoNode stands for None.  A dict key that may be missing is a   *)
(* record with a tag: an input's "link" is [k |-> "nokey"] (no key),       *)
(* [k |-> "null"] (JSON null) or [k |-> "id", v |-> n].                    *)
(***************************************************************************)
EXTENDS Integers, Sequences, FiniteSets, TLC

VARIABLES
    workflow,   \* the parsed workflow document: [nodes, links]
    call,       \* the function under execution: "locate", "bfs", "clip", "resolve", "main"
    pc,         \* the position in the code
    start,      \* start_node of the running search (a node position)
    q,          \* the deque of a breadth-first search (node positions)
    seen,       \* the set `seen` of a search, `visited` of the resolver (node ids)
    cur,        \* the node a search dequeued last
    processed,  \* how often each node id got past the seen/visited test in this call
    stack,      \* the resolver's suspended helper() frames
    arg,        \* the node helper() is being called on
    ret,        \* the value a helper() call returned
    res,        \* the node a search (or the locator) returned
    raised,     \* an exception (KeyError) left the running function
    save,       \* extract_final_positive_prompt_from_png: the local `save`
    out         \* extract_final_positive_prompt_from_png: the returned pair

vars == <<workflow, call, pc, start, q, seen, cur, processed, stack, arg, ret,
          res, raised, save, out>>

----------------------------------------------------------------------------
(* Python values *)

NoNode == 0

NoKey == [k |-> "nokey", v |-> 0]
Null == [k |-> "null", v |-> 0]
LinkId(n) == [k |-> "id", v |-> n]

NoOrder == [has |-> FALSE, v |-> 0]
Order(n) == [has |-> TRUE, v |-> n]

NoWidgets == [has |-> FALSE, v |-> <<>>]
Widgets(l) == [has |-> TRUE, v |-> l]
Str(s) == [k |-> "str", v |-> s]
Num(n) == [k |-> "num", v |-> n]
List(l) == [k |-> "list", v |-> l]

NoneStr == [some |-> FALSE, v |-> <<>>]
SomeStr(s) == [some |-> TRUE, v |-> s]
Truthy(r) == r.some /\ r.v # <<>>

Whitespace == {" ", "\n", "\t"}

RECURSIVE lstrip(_)
lstrip(s) == IF s # <<>> /\ Head(s) \in Whitespace THEN lstrip(Tail(s)) ELSE s

RECURSIVE rstrip(_)
rstrip(s) ==
    IF s # <<>> /\ s[Len(s)] \in Whitespace
    THEN rstrip(SubSeq(s, 1, Len(s) - 1))
    ELSE s

strip(s) == rstrip(lstrip(s))

\* Python's `sub in s` on strings
Contains(sub, s) ==
    \E k \in 0..(Len(s) - Len(sub)) : SubSeq(s, k + 1, k + Len(sub)) = sub

S_SaveImage == <<"S","a","v","e","I","m","a","g","e">>
S_Save_Image == <<"S","a","v","e"," ","I","m","a","g","e">>
S_CLIPTextEncode == <<"C","L","I","P","T","e","x","t","E","n","c","o","d","e">>

\* a marker test that takes any type naming an image
IsImageType(t) == Contains(<<"I","m","a","g","e">>, t)

IsSaveType(t) == Contains(S_SaveImage, t) \/ Contains(S_Save_Image, t)
IsClipType(t) == Contains(S_CLIPTextEncode, t)

----------------------------------------------------------------------------
(* build_link_map, get_node_by_id *)

RECURSIVE LinkMapFrom(_, _)
LinkMapFrom(links, m) ==
    IF links = <<>> THEN m
    ELSE LET rec == Head(links)
             m2 == IF Len(rec) >= 6
                   THEN [x \in (DOMAIN m) \cup {rec[1]} |->
                            IF x = rec[1]
                            THEN <<rec[2], rec[3], rec[4], rec[5], rec[6]>>
                            ELSE m[x]]
                   ELSE m
         IN  LinkMapFrom(Tail(links), m2)

build_link_map(wf) == LinkMapFrom(wf.links, <<>>)

RECURSIVE FirstWithId(_, _, _)
FirstWithId(nodes, node_id, i) ==
    IF i > Len(nodes) THEN NoNode
    ELSE IF nodes[i].id = node_id THEN i
    ELSE FirstWithId(nodes, node_id, i + 1)

get_node_by_id(wf, node_id) == FirstWithId(wf.nodes, node_id, 1)

\* `"link" in inp`
HasLinkKey(inp) == inp.link.k # "nokey"

\* link_map[inp["link"]] raises KeyError
LinkRaises(wf, inp) ==
    inp.link.k = "null" \/ inp.link.v \notin DOMAIN build_link_map(wf)

\* get_node_by_id(workflow, link_map[inp["link"]][0])
LinkSource(wf, inp) == get_node_by_id(wf, build_link_map(wf)[inp.link.v][1])

----------------------------------------------------------------------------
(* find_highest_order_saveimage, find_input_link_id *)

OrderOf(n) == IF n.order.has THEN n.order.v ELSE 0

Candidates(wf) ==
    SelectSeq([i \in 1..Len(wf.nodes) |-> i],
              LAMBDA i : IsSaveType(wf.nodes[i].type))

\* a max() that keeps the last of several maximal elements
RECURSIVE MaxLastFrom(_, _, _)
MaxLastFrom(wf, cands, best) ==
    IF cands = <<>> THEN best
    ELSE MaxLastFrom(wf, Tail(cands),
            IF OrderOf(wf.nodes[Head(cands)]) >= OrderOf(wf.nodes[best])
            THEN Head(cands) ELSE best)

\* Python's max(cands, key=...): a later element replaces the maximum only
\* when its key is strictly greater
RECURSIVE MaxFrom(_, _, _)
MaxFrom(wf, cands, best) ==
    IF cands = <<>> THEN best
    ELSE MaxFrom(wf, Tail(cands),
            IF OrderOf(wf.nodes[Head(cands)]) > OrderOf(wf.nodes[best])
            THEN Head(cands) ELSE best)

find_highest_order_saveimage_last(wf) ==
    LET cands == Candidates(wf)
    IN  IF cands = <<>> THEN NoNode
        ELSE MaxLastFrom(wf, Tail(cands), Head(cands))

find_highest_order_saveimage(wf) ==
    LET cands == Candidates(wf)
    IN  IF cands = <<>> THEN NoNode
        ELSE MaxFrom(wf, Tail(cands), Head(cands))

\* the first input named `name` that has a "link" key decides; its value may
\* be null
RECURSIVE FirstLinkOf(_, _, _)
FirstLinkOf(inputs, name, i) ==
    IF i > Len(inputs) THEN Null
    ELSE IF inputs[i].name = name /\ HasLinkKey(inputs[i]) THEN inputs[i].link
    ELSE FirstLinkOf(inputs, name, i + 1)

find_input_link_id(node, name) == FirstLinkOf(node.inputs, name, 1)

----------------------------------------------------------------------------
(* The two breadth-first searches *)

IsPositive(inp) == inp.name = "positive" /\ HasLinkKey(inp)

RECURSIVE FirstPositiveFrom(_, _)
FirstPositiveFrom(inputs, i) ==
    IF i > Len(inputs) THEN 0
    ELSE IF IsPositive(inputs[i]) THEN i
    ELSE FirstPositiveFrom(inputs, i + 1)

RECURSIVE FirstLinkedFrom(_, _)
FirstLinkedFrom(inputs, i) ==
    IF i > Len(inputs) THEN 0
    ELSE IF HasLinkKey(inputs[i]) THEN i
    ELSE FirstLinkedFrom(inputs, i + 1)

\* a loop that forgets to test the input's name
FirstLinked(inputs) == FirstLinkedFrom(inputs, 1)

\* the first input the loop of lines 58-61 returns from; 0 when there is none
FirstPositive(inputs) == FirstPositiveFrom(inputs, 1)

AllowedTypes == {"CONDITIONING", "CLIP", "STRING", "any"}

\* the inputs bfs_upstream_to_positive_source walks through: all that are linked
ExpandsAny(inp) == HasLinkKey(inp)

\* the inputs find_upstream_clip_encode walks through
ExpandsAllowed(inp) == HasLinkKey(inp) /\ inp.type \in AllowedTypes

Through(mode, inp) == IF mode = "all" THEN ExpandsAny(inp) ELSE ExpandsAllowed(inp)

\* The expansion loop over node.inputs from position i on: the predecessors it
\* appends, in order, and whether a link lookup raised.
RECURSIVE ExpandFrom(_, _, _, _, _)
ExpandFrom(wf, inputs, i, mode, preds) ==
    IF i > Len(inputs) THEN [raises |-> FALSE, preds |-> preds]
    ELSE IF ~Through(mode, inputs[i]) THEN ExpandFrom(wf, inputs, i + 1, mode, preds)
    ELSE IF LinkRaises(wf, inputs[i]) THEN [raises |-> TRUE, preds |-> preds]
    ELSE LET pred == LinkSource(wf, inputs[i])
         IN  ExpandFrom(wf, inputs, i + 1, mode,
                        IF pred # NoNode THEN Append(preds, pred) ELSE preds)

ExpandPositive(wf, n) == ExpandFrom(wf, n.inputs, 1, "all", <<>>)

\* an expansion that walks through every linked input, whatever its type
ExpandClipAnyType(wf, n) == ExpandFrom(wf, n.inputs, 1, "all", <<>>)

ExpandClip(wf, n) == ExpandFrom(wf, n.inputs, 1, "allowed", <<>>)

----------------------------------------------------------------------------
(* extract_string_value_recursive *)

RECURSIVE flatten_strings(_)
flatten_strings(x) ==
    IF x.k = "str" THEN <<x.v>>
    ELSE IF x.k = "list"
    THEN LET F[i \in 0..Len(x.v)] ==
                 IF i = 0 THEN <<>> ELSE F[i - 1] \o flatten_strings(x.v[i])
         IN  F[Len(x.v)]
    ELSE <<>>

\* max(strs, key=len): the first of the longest
RECURSIVE LongestFrom(_, _)
LongestFrom(strs, best) ==
    IF strs = <<>> THEN best
    ELSE LongestFrom(Tail(strs), IF Len(Head(strs)) > Len(best) THEN Head(strs) ELSE best)

RECURSIVE FirstNamed(_, _, _)
FirstNamed(inputs, name, i) ==
    IF i > Len(inputs) THEN 0
    ELSE IF inputs[i].name = name THEN i
    ELSE FirstNamed(inputs, name, i + 1)

\* `linked` of line 126: the first input named "text" has a "link" key
TextLinked(n) ==
    LET t == FirstNamed(n.inputs, "text", 1)
    IN  t # 0 /\ HasLinkKey(n.inputs[t])

\* lines 123-129; NoneStr when the branch does not return
InlineText(n) ==
    IF /\ IsClipType(n.type)
       /\ ~TextLinked(n)
       /\ n.wv.has /\ n.wv.v # <<>>
       /\ n.wv.v[1].k = "str"
    THEN SomeStr(strip(n.wv.v[1].v))
    ELSE NoneStr

\* max(strs, key=lambda s: len(s.strip())): the first of the longest once trimmed
RECURSIVE LongestTrimmedFrom(_, _)
LongestTrimmedFrom(strs, best) ==
    IF strs = <<>> THEN best
    ELSE LongestTrimmedFrom(Tail(strs),
            IF Len(strip(Head(strs))) > Len(strip(best)) THEN Head(strs) ELSE best)

\* lines 132-137 with the strings compared by their trimmed length
LongestWidgetTrimmed(n) ==
    IF n.wv.has /\ n.wv.v # <<>>
    THEN LET strs == SelectSeq(flatten_strings(List(n.wv.v)),
                               LAMBDA s : strip(s) # <<>>)
         IN  IF strs # <<>>
             THEN SomeStr(strip(LongestTrimmedFrom(Tail(strs), Head(strs))))
             ELSE NoneStr
    ELSE NoneStr

\* lines 132-137; NoneStr when the branch does not return
LongestWidget(n) ==
    IF n.wv.has /\ n.wv.v # <<>>
    THEN LET strs == SelectSeq(flatten_strings(List(n.wv.v)),
                               LAMBDA s : strip(s) # <<>>)
         IN  IF strs # <<>>
             THEN SomeStr(strip(LongestFrom(Tail(strs), Head(strs))))
             ELSE NoneStr
    ELSE NoneStr

\* The two loops of lines 140-157 from input i of loop ph on, up to the next
\* recursive call: "call" (helper(pred) is due), "raise" (link_map raised) or
\* "none" (both loops ran out: return None).
RECURSIVE Scan(_, _, _, _)
Scan(wf, inputs, ph, i) ==
    IF i > Len(inputs)
    THEN IF ph = "text" THEN Scan(wf, inputs, "string", 1)
         ELSE [kind |-> "none", ph |-> ph, i |-> i, pred |-> NoNode]
    ELSE LET inp == inputs[i]
             follows == /\ HasLinkKey(inp)
                        /\ IF ph = "text" THEN inp.name = "text" ELSE inp.type = "STRING"
         IN  IF ~follows THEN Scan(wf, inputs, ph, i + 1)
             ELSE IF LinkRaises(wf, inp)
             THEN [kind |-> "raise", ph |-> ph, i |-> i, pred |-> NoNode]
             ELSE IF LinkSource(wf, inp) = NoNode THEN Scan(wf, inputs, ph, i + 1)
             ELSE [kind |-> "call", ph |-> ph, i |-> i, pred |-> LinkSource(wf, inp)]

----------------------------------------------------------------------------
(* The state machine *)

MaxCount == 2

NodeIds(wf) == {wf.nodes[i].id : i \in 1..Len(wf.nodes)}

NoOut == [prompt |-> NoneStr, err |-> "unset"]
Failure(reason) == [prompt |-> NoneStr, err |-> reason]
Success(s) == [prompt |-> s, err |-> "none"]

\* a guard that records nothing
MarkNothing(ids, id) == ids

\* seen.add(node["id"]), visited.add(n["id"])
Mark(ids, id) == ids \cup {id}

Count(id) == [processed EXCEPT ![id] = IF @ < MaxCount THEN @ + 1 ELSE @]

\* the state a call of function f on workflow wf starts in
Enter(wf, f, at, n) ==
    /\ workflow = wf
    /\ call = f
    /\ pc = at
    /\ start = n
    /\ q = IF at \in {"bfs", "clip"} THEN <<n>> ELSE <<>>
    /\ seen = {}
    /\ cur = NoNode
    /\ processed = [id \in NodeIds(wf) |-> 0]
    /\ stack = <<>>
    /\ arg = IF at = "helper" THEN n ELSE NoNode
    /\ ret = NoneStr
    /\ res = NoNode
    /\ raised = FALSE
    /\ save = NoNode
    /\ out = NoOut

\* an exception leaves the running function; lines 198-199 turn it into a
\* reason when the function was called by extract_final_positive_prompt_from_png
Raise ==
    /\ raised' = TRUE
    /\ pc' = "done"
    /\ out' = IF call = "main" THEN Failure("error") ELSE out

\* a search returns node r to its caller
ReturnNode(r, after) ==
    /\ res' = r
    /\ pc' = IF call = "main" THEN after ELSE "done"
    /\ UNCHANGED <<raised, out>>

\* find_highest_order_saveimage, called on its own
Locate ==
    /\ pc = "locate"
    /\ res' = find_highest_order_saveimage(workflow)
    /\ pc' = "done"
    /\ UNCHANGED <<workflow, call, start, q, seen, cur, processed, stack, arg,
                   ret, raised, save, out>>

\* lines 53-55: a dequeued node that was seen before is dropped
BfsSkip ==
    /\ pc \in {"bfs", "clip"}
    /\ q # <<>>
    /\ workflow.nodes[Head(q)].id \in seen
    /\ q' = Tail(q)
    /\ UNCHANGED <<workflow, call, pc, start, seen, cur, processed, stack, arg,
                   ret, res, raised, save, out>>

\* lines 53-69: one turn of the loop of bfs_upstream_to_positive_source on a
\* node not seen before
BfsVisit ==
    /\ pc = "bfs"
    /\ q # <<>>
    /\ LET node == Head(q)
           n == workflow.nodes[node]
           p == FirstPositive(n.inputs)
           e == ExpandPositive(workflow, n)
       IN  /\ n.id \notin seen
           /\ seen' = Mark(seen, n.id)
           /\ processed' = Count(n.id)
           /\ cur' = node
           /\ IF p # 0
              THEN IF LinkRaises(workflow, n.inputs[p])
                   THEN Raise /\ UNCHANGED <<q, res>>
                   ELSE ReturnNode(LinkSource(workflow, n.inputs[p]), "main_bfs_ret")
                        /\ UNCHANGED q
              ELSE IF e.raises
                   THEN Raise /\ UNCHANGED <<q, res>>
                   ELSE q' = Tail(q) \o e.preds /\ UNCHANGED <<pc, res, raised, out>>
    /\ UNCHANGED <<workflow, call, start, stack, arg, ret, save>>

\* line 70: the queue ran empty
BfsExhausted ==
    /\ pc = "bfs"
    /\ q = <<>>
    /\ ReturnNode(NoNode, "main_bfs_ret")
    /\ UNCHANGED <<workflow, call, start, q, seen, cur, processed, stack, arg,
                   ret, save>>

\* lines 81-94: one turn of the loop of find_upstream_clip_encode on a node
\* not seen before
ClipVisit ==
    /\ pc = "clip"
    /\ q # <<>>
    /\ LET node == Head(q)
           n == workflow.nodes[node]
           e == ExpandClip(workflow, n)
       IN  /\ n.id \notin seen
           /\ seen' = Mark(seen, n.id)
           /\ processed' = Count(n.id)
           /\ cur' = node
           /\ IF IsClipType(n.type)
              THEN ReturnNode(node, "main_clip_ret") /\ UNCHANGED q
              ELSE IF e.raises
                   THEN Raise /\ UNCHANGED <<q, res>>
                   ELSE q' = Tail(q) \o e.preds /\ UNCHANGED <<pc, res, raised, out>>
    /\ UNCHANGED <<workflow, call, start, stack, arg, ret, save>>

\* line 95
ClipExhausted ==
    /\ pc = "clip"
    /\ q = <<>>
    /\ ReturnNode(NoNode, "main_clip_ret")
    /\ UNCHANGED <<workflow, call, start, q, seen, cur, processed, stack, arg,
                   ret, save>>

\* helper's loops, run on node n from input i of loop ph up to the next
\* recursive call, the exception or the final `return None`
Continue(n, ph, i, frames) ==
    LET s == Scan(workflow, workflow.nodes[n].inputs, ph, i)
    IN  IF s.kind = "call"
        THEN /\ stack' = Append(frames, [n |-> n, ph |-> s.ph, i |-> s.i])
             /\ arg' = s.pred
             /\ pc' = "helper"
             /\ UNCHANGED <<ret, raised, out>>
        ELSE IF s.kind = "raise"
        THEN Raise /\ UNCHANGED <<stack, arg, ret>>
        ELSE /\ stack' = frames
             /\ ret' = NoneStr
             /\ pc' = "helper_ret"
             /\ UNCHANGED <<arg, raised, out>>

\* lines 117-158: a call helper(arg), up to its return or its first recursive call
HelperEnter ==
    /\ pc = "helper"
    /\ LET n == workflow.nodes[arg]
       IN  IF n.id \in seen
           THEN /\ ret' = NoneStr
                /\ pc' = "helper_ret"
                /\ UNCHANGED <<seen, processed, cur, stack, arg, raised, out>>
           ELSE /\ seen' = Mark(seen, n.id)
                /\ processed' = Count(n.id)
                /\ cur' = arg
                /\ IF InlineText(n).some
                   THEN /\ ret' = InlineText(n)
                        /\ pc' = "helper_ret"
                        /\ UNCHANGED <<stack, arg, raised, out>>
                   ELSE IF LongestWidget(n).some
                   THEN /\ ret' = LongestWidget(n)
                        /\ pc' = "helper_ret"
                        /\ UNCHANGED <<stack, arg, raised, out>>
                   ELSE Continue(arg, "text", 1, stack)
    /\ UNCHANGED <<workflow, call, start, q, res, save>>

\* lines 145-147, 155-157: a recursive call returned to the suspended frame
HelperResume ==
    /\ pc = "helper_ret"
    /\ stack # <<>>
    /\ LET f == stack[Len(stack)]
           rest == SubSeq(stack, 1, Len(stack) - 1)
       IN  IF Truthy(ret)
           THEN /\ stack' = rest
                /\ UNCHANGED <<pc, arg, ret, raised, out>>
           ELSE Continue(f.n, f.ph, f.i + 1, rest)
    /\ UNCHANGED <<workflow, call, start, q, seen, cur, processed, res, save>>

\* line 160: the outermost helper() returned
HelperDone ==
    /\ pc = "helper_ret"
    /\ stack = <<>>
    /\ pc' = IF call = "main" THEN "main_resolve_ret" ELSE "done"
    /\ UNCHANGED <<workflow, call, start, q, seen, cur, processed, stack, arg,
                   ret, res, raised, save, out>>

\* a search is called on node n
StartSearch(kind, n) ==
    /\ pc' = kind
    /\ start' = n
    /\ q' = <<n>>
    /\ seen' = {}
    /\ cur' = NoNode
    /\ processed' = [id \in NodeIds(workflow) |-> 0]

Finish(o) ==
    /\ out' = o
    /\ pc' = "done"

\* lines 171-185
MainStart ==
    /\ pc = "main"
    /\ LET s == find_highest_order_saveimage(workflow)
           images_link == find_input_link_id(workflow.nodes[s], "images")
           link_map == build_link_map(workflow)
           start_node == get_node_by_id(workflow, link_map[images_link.v][1])
       IN  /\ save' = s
           /\ IF s = NoNode
              THEN /\ Finish(Failure("no-saveimage"))
                   /\ UNCHANGED <<start, q, seen, cur, processed, raised>>
              ELSE IF images_link.k = "null" \/ images_link.v = 0
              THEN /\ Finish(Failure("no-saveimage-images-link"))
                   /\ UNCHANGED <<start, q, seen, cur, processed, raised>>
              ELSE IF images_link.v \notin DOMAIN link_map
              THEN Raise /\ UNCHANGED <<start, q, seen, cur, processed>>
              ELSE IF start_node = NoNode
              THEN /\ Finish(Failure("no-start-from-saveimage"))
                   /\ UNCHANGED <<start, q, seen, cur, processed, raised>>
              ELSE StartSearch("bfs", start_node) /\ UNCHANGED <<raised, out>>
    /\ UNCHANGED <<workflow, call, stack, arg, ret, res>>

\* lines 185-189
MainAfterBfs ==
    /\ pc = "main_bfs_ret"
    /\ IF res = NoNode
       THEN /\ Finish(Failure("no-positive-found"))
            /\ UNCHANGED <<start, q, seen, cur, processed>>
       ELSE StartSearch("clip", res) /\ UNCHANGED out
    /\ UNCHANGED <<workflow, call, stack, arg, ret, res, raised, save>>

\* lines 189-193
MainAfterClip ==
    /\ pc = "main_clip_ret"
    /\ IF res = NoNode
       THEN /\ Finish(Failure("no-clip-encode-upstream"))
            /\ UNCHANGED <<start, seen, cur, processed, arg>>
       ELSE /\ pc' = "helper"
            /\ start' = res
            /\ arg' = res
            /\ seen' = {}
            /\ cur' = NoNode
            /\ processed' = [id \in NodeIds(workflow) |-> 0]
            /\ UNCHANGED out
    /\ UNCHANGED <<workflow, call, q, stack, ret, res, raised, save>>

\* lines 193-197
MainAfterResolve ==
    /\ pc = "main_resolve_ret"
    /\ Finish(IF Truthy(ret) THEN Success(ret) ELSE Failure("no-prompt-resolved"))
    /\ UNCHANGED <<workflow, call, start, q, seen, cur, processed, stack, arg,
                   ret, res, raised, save>>

----------------------------------------------------------------------------
(* Workflows *)

MaxNodes == 3
MaxSaveNodes == 3
MaxOrder == 1

Slot(name, type, link) == [name |-> name, type |-> type, link |-> link]
Node(id, type, order, inputs, wv) ==
    [id |-> id, type |-> type, order |-> order, inputs |-> inputs, wv |-> wv]

T_SaveImage == S_SaveImage
T_SaveImagePlus == S_Save_Image \o <<"+">>
T_saveimage == <<"s","a","v","e","i","m","a","g","e">>
T_CLIPTextEncode == S_CLIPTextEncode
T_CLIPTextEncodeSDXL == S_CLIPTextEncode \o <<"S","D","X","L">>
T_PreviewImage == <<"P","r","e","v","i","e","w","I","m","a","g","e">>
T_ShowText == <<"S","h","o","w","T","e","x","t">>
T_KSampler == <<"K","S","a","m","p","l","e","r">>

\* the id of the node at position i; no node has id NodeId(0)
NodeId(i) == 10 * i

\* Link j - 1 leaves node j; link n leaves a node that is not in the workflow;
\* the record of link n + 1 is short, so that link is in no link map.
LinkTable(n) ==
    [j \in 1..n |-> <<j - 1, NodeId(j), 0, NodeId(1), 0, "T">>]
    \o << <<n, NodeId(0), 0, NodeId(1), 0, "T">>,
          <<n + 1, NodeId(1), 0, NodeId(1), 0>> >>

From(j) == LinkId(j - 1)
Ghost(n) == LinkId(n)
Missing(n) == LinkId(n + 1)

\* workflows for find_highest_order_saveimage
LocateTypes == {T_SaveImage, T_SaveImagePlus, T_saveimage, T_CLIPTextEncode}
LocateOrders == {NoOrder} \cup {Order(k) : k \in 0..MaxOrder}

LocateWorkflow(n, t, o) ==
    [nodes |-> [i \in 1..n |-> Node(NodeId(i), t[i], o[i], <<>>, NoWidgets)],
     links |-> <<>>]

InitLocate ==
    \E n \in 0..MaxSaveNodes :
        \E t \in [1..n -> LocateTypes], o \in [1..n -> LocateOrders] :
            Enter(LocateWorkflow(n, t, o), "locate", "locate", NoNode)

SpecLocate == InitLocate /\ [][Locate]_vars

\* workflows for bfs_upstream_to_positive_source, which is called on node 1
Targets(n) == {From(j) : j \in 1..n} \cup {Ghost(n), Missing(n)}

BfsStartInputs(n) ==
    {<<>>}
    \cup { <<Slot(nm, "LATENT", l)>> :
             nm \in {"latent", "positive"}, l \in Targets(n) \cup {NoKey, Null} }
    \cup { <<Slot("latent", "LATENT", From(j)), Slot(nm, "MODEL", From(k))>> :
             j \in 1..n, k \in 1..n, nm \in {"latent", "positive"} }

BfsInputs(n) ==
    {<<>>}
    \cup { <<Slot(nm, "LATENT", l)>> : nm \in {"latent", "positive"}, l \in Targets(n) }

BfsWorkflow(a, b) ==
    [nodes |-> [i \in 1..MaxNodes |->
                   Node(NodeId(i), T_KSampler, NoOrder, IF i = 1 THEN a ELSE b[i], NoWidgets)],
     links |-> LinkTable(MaxNodes)]

InitBfs ==
    \E a \in BfsStartInputs(MaxNodes), b \in [2..MaxNodes -> BfsInputs(MaxNodes)] :
        Enter(BfsWorkflow(a, b), "bfs", "bfs", 1)

NextBfs == BfsSkip \/ BfsVisit \/ BfsExhausted

SpecBfs == InitBfs /\ [][NextBfs]_vars

\* workflows for find_upstream_clip_encode, which is called on node 1
ClipStartNodes(n) ==
    { [type |-> t, wv |-> NoWidgets, inputs |-> inp] :
        t \in {T_KSampler, T_CLIPTextEncode},
        inp \in {<<>>}
            \cup { <<Slot("in", ty, l)>> :
                     ty \in {"CONDITIONING", "MODEL", "any", "*"},
                     l \in Targets(n) \cup {NoKey, Null} }
            \cup { <<Slot("model", "MODEL", From(j)), Slot("clip", "CLIP", From(k))>> :
                     j \in 1..n, k \in 1..n } }

ClipNodes(n) ==
    { [type |-> T_CLIPTextEncodeSDXL, wv |-> NoWidgets, inputs |-> <<>>] }
    \cup { [type |-> T_KSampler, wv |-> NoWidgets, inputs |-> <<Slot("in", ty, From(j))>>] :
             ty \in {"STRING", "LATENT"}, j \in 1..n }

\* the workflow of n nodes whose node i has the type, inputs and widgets of nd[i]
Graph(n, nd) ==
    [i \in 1..n |-> Node(NodeId(i), nd[i].type, NoOrder, nd[i].inputs, nd[i].wv)]

StartAndRest(a, b) == [i \in 1..MaxNodes |-> IF i = 1 THEN a ELSE b[i]]

InitClip ==
    \E a \in ClipStartNodes(MaxNodes), b \in [2..MaxNodes -> ClipNodes(MaxNodes)] :
        Enter([nodes |-> Graph(MaxNodes, StartAndRest(a, b)),
               links |-> LinkTable(MaxNodes)], "clip", "clip", 1)

NextClip == BfsSkip \/ ClipVisit \/ ClipExhausted

SpecClip == InitClip /\ [][NextClip]_vars

\* workflows for extract_string_value_recursive, which is called on node 1
W_cat == <<"c","a","t">>
W_dog == <<"d","o","g">>
W_big_cat == <<"b","i","g"," ","c","a","t">>
W_cat_padded == <<" ","c","a","t","\n">>
W_dog_padded == <<"d","o","g"," ">>
W_x_padded == <<" "," "," ","x"," "," "," "," ">>
W_blank == <<" "," ">>
W_empty == <<>>

LiteralWidgets ==
    { NoWidgets,
      Widgets(<<>>),
      Widgets(<<Str(W_cat)>>),
      Widgets(<<Str(W_cat_padded)>>),
      Widgets(<<Str(W_cat), Str(W_big_cat)>>),
      Widgets(<<Str(W_cat), Str(W_dog)>>),
      Widgets(<<Str(W_x_padded), Str(W_big_cat)>>),
      Widgets(<<Num(7), Str(W_cat)>>),
      Widgets(<<List(<<Str(W_cat), Str(W_big_cat)>>), Str(W_dog)>>),
      Widgets(<<Str(W_blank)>>),
      Widgets(<<Str(W_empty), Str(W_cat)>>) }

ResolveStartNodes(n) ==
    { [type |-> t, wv |-> w, inputs |-> inp] :
        t \in {T_CLIPTextEncode, T_ShowText},
        w \in LiteralWidgets,
        inp \in { <<>>,
                  <<Slot("text", "STRING", NoKey)>>,
                  <<Slot("text", "STRING", Null)>>,
                  <<Slot("text", "STRING", From(2))>>,
                  <<Slot("clip", "CLIP", From(2))>>,
                  <<Slot("text", "STRING", NoKey), Slot("text", "STRING", From(2))>> } }
    \cup
    { [type |-> T_ShowText, wv |-> NoWidgets, inputs |-> inp] :
        inp \in { <<Slot(nm, ty, l)>> :
                    nm \in {"text", "s"}, ty \in {"STRING", "CLIP"},
                    l \in Targets(n) \cup {Null} }
            \cup { <<Slot("text", "STRING", l), Slot("s", "STRING", From(k))>> :
                     l \in Targets(n) \cup {Null}, k \in 1..n } }

ResolveNodes(n) ==
    { [type |-> T_ShowText, wv |-> Widgets(<<Str(W_dog_padded)>>), inputs |-> <<>>],
      [type |-> T_ShowText, wv |-> Widgets(<<Str(W_blank)>>), inputs |-> <<>>],
      [type |-> T_ShowText, wv |-> NoWidgets, inputs |-> <<>>],
      [type |-> T_CLIPTextEncodeSDXL, wv |-> Widgets(<<Str(W_empty), Str(W_cat)>>),
       inputs |-> <<>>] }
    \cup { [type |-> T_ShowText, wv |-> NoWidgets,
            inputs |-> <<Slot("text", "STRING", From(j))>>] : j \in 1..n }

InitResolve ==
    \E a \in ResolveStartNodes(MaxNodes), b \in [2..MaxNodes -> ResolveNodes(MaxNodes)] :
        Enter([nodes |-> Graph(MaxNodes, StartAndRest(a, b)),
               links |-> LinkTable(MaxNodes)], "resolve", "helper", 1)

NextResolve == HelperEnter \/ HelperResume \/ HelperDone

SpecResolve == InitResolve /\ [][NextResolve]_vars

\* workflows with cycles and paths that meet again, for the three searches
Next1(i, n) == IF i = n THEN 1 ELSE i + 1

SearchNodes(i, n) ==
    { [type |-> T_ShowText, wv |-> NoWidgets, inputs |-> inp] :
        inp \in { <<>>,
                  <<Slot("text", "STRING", From(i))>>,
                  <<Slot("text", "STRING", From(1))>>,
                  <<Slot("text", "STRING", From(Next1(i, n)))>>,
                  <<Slot("text", "STRING", From(Next1(i, n))),
                    Slot("s", "STRING", From(Next1(Next1(i, n), n)))>> } }
    \cup { [type |-> T_CLIPTextEncode, wv |-> Widgets(<<Str(W_cat)>>),
            inputs |-> <<Slot("positive", "CONDITIONING", From(1))>>] }

AllSearchNodes(n) == UNION { SearchNodes(i, n) : i \in 1..n }

InitSearch ==
    \E nd \in [1..MaxNodes -> AllSearchNodes(MaxNodes)] :
        \E f \in {<<"bfs", "bfs">>, <<"clip", "clip">>, <<"resolve", "helper">>} :
            /\ \A i \in 1..MaxNodes : nd[i] \in SearchNodes(i, MaxNodes)
            /\ Enter([nodes |-> Graph(MaxNodes, nd), links |-> LinkTable(MaxNodes)],
                     f[1], f[2], 1)

NextSearch ==
    \/ BfsSkip \/ BfsVisit \/ BfsExhausted
    \/ ClipVisit \/ ClipExhausted
    \/ HelperEnter \/ HelperResume \/ HelperDone

\* the interpreter runs the called function on: a step that can be taken is taken
SpecSearch == InitSearch /\ [][NextSearch]_vars /\ WF_vars(NextSearch)

\* workflows for extract_final_positive_prompt_from_png: n graph nodes, then
\* the image-save nodes

MainNodes(i, n) ==
    { [type |-> T_KSampler, wv |-> NoWidgets, inputs |-> <<Slot(sl[1], sl[2], From(j))>>] :
        sl \in {<<"positive", "CONDITIONING">>, <<"samples", "LATENT">>}, j \in 1..n }
    \cup
    { [type |-> T_KSampler, wv |-> NoWidgets,
       inputs |-> <<Slot("conditioning", "CONDITIONING", From(Next1(i, n)))>>],
      [type |-> T_KSampler, wv |-> NoWidgets,
       inputs |-> <<Slot("positive", "CONDITIONING", Missing(n))>>],
      [type |-> T_KSampler, wv |-> NoWidgets, inputs |-> <<>>],
      [type |-> T_CLIPTextEncode, wv |-> Widgets(<<Str(W_cat_padded)>>),
       inputs |-> <<Slot("clip", "CLIP", NoKey)>>],
      [type |-> T_CLIPTextEncode, wv |-> NoWidgets,
       inputs |-> <<Slot("text", "STRING", From(Next1(i, n)))>>],
      [type |-> T_ShowText, wv |-> Widgets(<<Str(W_dog_padded)>>), inputs |-> <<>>] }

\* decode <- sampler <- encoder with its text inline
Chain(n) ==
    [i \in 1..n |->
        IF i = 1
        THEN Node(NodeId(1), T_CLIPTextEncode, NoOrder, <<>>, Widgets(<<Str(W_cat_padded)>>))
        ELSE IF i = 2
        THEN Node(NodeId(2), T_KSampler, NoOrder,
                  <<Slot("positive", "CONDITIONING", From(1))>>, NoWidgets)
        ELSE Node(NodeId(i), T_KSampler, NoOrder,
                  <<Slot("samples", "LATENT", From(i - 1))>>, NoWidgets)]

SaveInputs(n) ==
    { <<>>,
      <<Slot("images", "IMAGE", NoKey)>>,
      <<Slot("images", "IMAGE", Null)>>,
      <<Slot("images", "IMAGE", Ghost(n))>>,
      <<Slot("images", "IMAGE", Missing(n))>>,
      <<Slot("image", "IMAGE", From(n))>>,
      <<Slot("images", "IMAGE", Null), Slot("images", "IMAGE", From(n))>> }
    \cup { <<Slot("images", "IMAGE", From(j))>> : j \in 1..n }

Saves(n) ==
    { <<>> }
    \cup { <<Node(NodeId(n + 1), t, NoOrder, inp, NoWidgets)>> :
             t \in {T_SaveImage, T_PreviewImage}, inp \in SaveInputs(n) }
    \cup { <<Node(NodeId(n + 1), T_SaveImagePlus, o[1],
                  <<Slot("images", "IMAGE", From(1))>>, NoWidgets),
             Node(NodeId(n + 2), T_SaveImage, o[2],
                  <<Slot("images", "IMAGE", From(n))>>, NoWidgets)>> :
             o \in LocateOrders \X LocateOrders }

AllMainNodes(n) == UNION { MainNodes(i, n) : i \in 1..n }

SaveOf(t, n) ==
    Node(NodeId(n + 1), t, NoOrder, <<Slot("images", "IMAGE", From(2))>>, NoWidgets)

InitMain ==
    \/ \E nd \in [1..MaxNodes -> AllMainNodes(MaxNodes)], t \in {T_SaveImage, T_PreviewImage} :
          /\ \A i \in 1..MaxNodes : nd[i] \in MainNodes(i, MaxNodes)
          /\ Enter([nodes |-> Graph(MaxNodes, nd) \o <<SaveOf(t, MaxNodes)>>,
                    links |-> LinkTable(MaxNodes)], "main", "main", NoNode)
    \/ \E sv \in Saves(MaxNodes) :
          Enter([nodes |-> Chain(MaxNodes) \o sv, links |-> LinkTable(MaxNodes)],
                "main", "main", NoNode)

NextMain ==
    \/ MainStart \/ MainAfterBfs \/ MainAfterClip \/ MainAfterResolve
    \/ BfsSkip \/ BfsVisit \/ BfsExhausted
    \/ ClipVisit \/ ClipExhausted
    \/ HelperEnter \/ HelperResume \/ HelperDone

SpecMain == InitMain /\ [][NextMain]_vars

----------------------------------------------------------------------------
(* The upstream graph, stated from the workflow document alone *)

Positions(wf) == 1..Len(wf.nodes)

\* link id l has a record, and that record's source is node j
Wired(wf, l, j) ==
    \E r \in 1..Len(wf.links) :
        /\ Len(wf.links[r]) >= 6
        /\ wf.links[r][1] = l
        /\ wf.links[r][2] = wf.nodes[j].id

\* the nodes that feed node i through an input with a link value; with
\* typed, only through inputs of the four traversable types
Sources(wf, i, typed) ==
    { j \in Positions(wf) :
        \E s \in 1..Len(wf.nodes[i].inputs) :
            LET inp == wf.nodes[i].inputs[s]
            IN  /\ inp.link.k = "id"
                /\ typed => inp.type \in {"CONDITIONING", "CLIP", "STRING", "any"}
                /\ Wired(wf, inp.link.v, j) }

RECURSIVE Within(_, _, _, _)
Within(wf, s, typed, k) ==
    IF k = 0 THEN {s}
    ELSE LET W == Within(wf, s, typed, k - 1)
         IN  W \cup UNION { Sources(wf, i, typed) : i \in W }

Reach(wf, s, typed) == Within(wf, s, typed, Len(wf.nodes))

Dist(wf, s, m) == CHOOSE k \in 0..Len(wf.nodes) :
                     /\ m \in Within(wf, s, FALSE, k)
                     /\ \A k2 \in 0..(k - 1) : m \notin Within(wf, s, FALSE, k2)

\* node i has an input named "positive" that carries a "link"
HasPositive(wf, i) ==
    \E s \in 1..Len(wf.nodes[i].inputs) :
        /\ wf.nodes[i].inputs[s].name = "positive"
        /\ wf.nodes[i].inputs[s].link.k # "nokey"

\* the first such input of node i
PositiveSlot(wf, i) ==
    CHOOSE s \in 1..Len(wf.nodes[i].inputs) :
        /\ wf.nodes[i].inputs[s].name = "positive"
        /\ wf.nodes[i].inputs[s].link.k # "nokey"
        /\ \A s2 \in 1..(s - 1) :
              ~(/\ wf.nodes[i].inputs[s2].name = "positive"
                /\ wf.nodes[i].inputs[s2].link.k # "nokey")

NodeWithId(wf, id) == CHOOSE i \in Positions(wf) : wf.nodes[i].id = id

----------------------------------------------------------------------------
(* Claims *)

SaveCandidates == { i \in Positions(workflow) :
                      \/ Contains(S_SaveImage, workflow.nodes[i].type)
                      \/ Contains(S_Save_Image, workflow.nodes[i].type) }

KeyOf(i) == IF workflow.nodes[i].order.has THEN workflow.nodes[i].order.v ELSE 0

\* C2: with two or more image-save nodes, find_highest_order_saveimage returns
\* a candidate of maximal `order` (a missing `order` counts as 0), and of the
\* candidates of that maximal `order` the one that comes first in the node
\* sequence.
C2_HighestOrderFirst ==
    (call = "locate" /\ pc = "done" /\ Cardinality(SaveCandidates) >= 2) =>
        /\ res \in SaveCandidates
        /\ \A c \in SaveCandidates :
              /\ KeyOf(c) <= KeyOf(res)
              /\ KeyOf(c) = KeyOf(res) => res <= c

\* two candidates tie on the maximal order, one of them by a missing `order`
C2_Witness ==
    /\ call = "locate" /\ pc = "done"
    /\ \E c \in SaveCandidates :
          /\ c # res
          /\ KeyOf(c) = KeyOf(res)
          /\ workflow.nodes[c].order.has # workflow.nodes[res].order.has

BfsReturned == call = "bfs" /\ pc = "done" /\ ~raised

\* the node the search stopped at has a linked "positive" input, is the first
\* processed node that has one, and is at minimal hop distance among the
\* upstream-reachable nodes that have one
StoppedAtFirstPositive ==
    /\ cur # NoNode
    /\ HasPositive(workflow, cur)
    /\ workflow.nodes[cur].inputs[PositiveSlot(workflow, cur)].link.k = "id"
    /\ \A id \in seen \ {workflow.nodes[cur].id} :
          ~HasPositive(workflow, NodeWithId(workflow, id))
    /\ cur \in Reach(workflow, start, FALSE)
    /\ \A m \in Reach(workflow, start, FALSE) :
          HasPositive(workflow, m) => Dist(workflow, start, cur) <= Dist(workflow, start, m)

PositiveLinkOfCur == workflow.nodes[cur].inputs[PositiveSlot(workflow, cur)].link.v

ClipReturned == call = "clip" /\ pc = "done" /\ ~raised

\* C6: find_upstream_clip_encode tests the text-encoder predicate on a
\* dequeued node before it expands it, and expands only through linked inputs
\* of type CONDITIONING, CLIP, STRING or any: the node it returns is a text
\* encoder that is the start node or is reachable from it through such inputs
\* alone, no text encoder was expanded, and a start node that is a text
\* encoder is returned itself.
C6_EncoderOnTypedPath ==
    ClipReturned =>
        /\ res # NoNode =>
              /\ Contains(S_CLIPTextEncode, workflow.nodes[res].type)
              /\ res \in Reach(workflow, start, TRUE)
        /\ \A id \in seen :
              Contains(S_CLIPTextEncode, workflow.nodes[NodeWithId(workflow, id)].type)
                  => res = NodeWithId(workflow, id)
        /\ Contains(S_CLIPTextEncode, workflow.nodes[start].type) => res = start

\* an encoder was found upstream while another encoder, wired to the start
\* node through a MODEL input only, was left alone
C6_Witness ==
    /\ ClipReturned
    /\ res \notin {NoNode, start}
    /\ \E b \in Reach(workflow, start, FALSE) \ Reach(workflow, start, TRUE) :
          /\ Contains(S_CLIPTextEncode, workflow.nodes[b].type)
          /\ workflow.nodes[b].id \notin seen

ResolveDone == call = "resolve" /\ pc = "done"

StartNode == workflow.nodes[start]

IsEncoder(n) == Contains(S_CLIPTextEncode, n.type)

TextSlots(n) == { s \in 1..Len(n.inputs) : n.inputs[s].name = "text" }

\* no input of the workflow has a null "link"
NullFree ==
    \A i \in Positions(workflow) :
        \A s \in 1..Len(workflow.nodes[i].inputs) :
            workflow.nodes[i].inputs[s].link.k # "null"

\* C1: a "text" or STRING input whose link id is not in the link table does
\* not make extract_string_value_recursive raise; the branch counts as "no
\* link" and resolution goes on with the next rule.  Every link value of the
\* workflow being an id, only such an input could make it raise.
C1_MissingLinkDoesNotRaise ==
    (ResolveDone /\ NullFree) => ~raised

FirstWidgetIsString(n) == n.wv.has /\ n.wv.v # <<>> /\ n.wv.v[1].k = "str"

\* C4: called on a text encoder whose "text" input is absent or carries no
\* link value, and whose first widgets_values element is a string, the
\* resolver returns that element trimmed, whatever else widgets_values holds.
C4_UnlinkedEncoderReturnsFirstWidget ==
    ( /\ ResolveDone
      /\ IsEncoder(StartNode)
      /\ \A s \in TextSlots(StartNode) : StartNode.inputs[s].link.k # "id"
      /\ FirstWidgetIsString(StartNode) )
    => (~raised /\ ret = SomeStr(strip(StartNode.wv.v[1].v)))

\* helper returns at line 129
ReturnsInline(n) ==
    /\ IsEncoder(n)
    /\ \A s \in TextSlots(n) :
          (\A s2 \in TextSlots(n) : s <= s2) => n.inputs[s].link.k = "nokey"
    /\ FirstWidgetIsString(n)

\* rule 1 of the resolution order applies
Rule1Applies(n) ==
    /\ IsEncoder(n)
    /\ \A s \in TextSlots(n) : n.inputs[s].link.k # "id"
    /\ FirstWidgetIsString(n)

Flat(n) == IF n.wv.has THEN flatten_strings(List(n.wv.v)) ELSE <<>>

\* the strings of the flattened widgets_values that are not all whitespace
Kept(n) == { k \in 1..Len(Flat(n)) : strip(Flat(n)[k]) # <<>> }

\* the original C5: rule 1 not applying and the flattened widgets_values
\* holding a string that is not empty once trimmed, the resolver returns the
\* trimmed form of one of these strings, and none of them is longer, once
\* trimmed, than the returned value
C5_LongestByTrimmedLength ==
    (ResolveDone /\ ~Rule1Applies(StartNode) /\ ~ReturnsInline(StartNode)
       /\ Kept(StartNode) # {})
    => /\ ~raised
       /\ ret.some
       /\ \E k \in Kept(StartNode) : ret.v = strip(Flat(StartNode)[k])
       /\ \A k \in Kept(StartNode) : Len(strip(Flat(StartNode)[k])) <= Len(ret.v)

\* C5 (amended): when the resolver does not return under rule 1 and the
\* flattened widgets_values holds a string that is not all whitespace, it
\* returns the trimmed form of the string that is longest before trimming
\* among those that are not all whitespace (the first of them on a tie).
C5_LongestByRawLength ==
    (ResolveDone /\ ~ReturnsInline(StartNode) /\ Kept(StartNode) # {})
    => /\ ~raised
       /\ ret.some
       /\ \E k \in Kept(StartNode) :
             /\ ret.v = strip(Flat(StartNode)[k])
             /\ \A k2 \in Kept(StartNode) :
                   /\ Len(Flat(StartNode)[k2]) <= Len(Flat(StartNode)[k])
                   /\ Len(Flat(StartNode)[k2]) = Len(Flat(StartNode)[k]) => k <= k2

\* the returned string came from a padded string whose trimmed form is
\* shorter than that of another string of the list
C5_Witness ==
    /\ ResolveDone /\ ~ReturnsInline(StartNode)
    /\ ret.some
    /\ \E k \in Kept(StartNode) : Len(strip(Flat(StartNode)[k])) > Len(ret.v)

\* C10: called on a text encoder with a linked "text" input, the resolver
\* reports the text resolved from the link's source node, not a literal of
\* the encoder's own widgets_values.  Stated for a source node that has no
\* inputs and holds one string: the text resolved from it is that string,
\* trimmed.
C10_LinkedTextIsFollowed ==
    \A p \in Positions(workflow) :
        ( /\ ResolveDone
          /\ IsEncoder(StartNode)
          /\ TextSlots(StartNode) # {}
          /\ \A s \in TextSlots(StartNode) :
                /\ StartNode.inputs[s].link.k = "id"
                /\ Wired(workflow, StartNode.inputs[s].link.v, p)
          /\ p # start
          /\ workflow.nodes[p].inputs = <<>>
          /\ workflow.nodes[p].wv.has
          /\ Len(workflow.nodes[p].wv.v) = 1
          /\ workflow.nodes[p].wv.v[1].k = "str"
          /\ strip(workflow.nodes[p].wv.v[1].v) # <<>> )
        => (~raised /\ ret = SomeStr(strip(workflow.nodes[p].wv.v[1].v)))

OncePerNode == \A id \in DOMAIN processed : processed[id] <= 1

\* C3: on any finite workflow graph, cycles and paths that meet again
\* included, each of bfs_upstream_to_positive_source,
\* find_upstream_clip_encode and extract_string_value_recursive gets each
\* node id past its seen/visited test at most once per call, and the call ends.
C3_OncePerNodeAndTerminates == []OncePerNode /\ <>(pc = "done")

\* a search ended after it had been through every node of a workflow in which
\* a node upstream of the start node feeds itself
C3_Witness ==
    /\ pc = "done"
    /\ ~raised
    /\ seen = NodeIds(workflow)
    /\ \E m \in Reach(workflow, start, FALSE) \ {start} :
          \E i \in Reach(workflow, m, FALSE) : m \in Sources(workflow, i, FALSE)
    /\ \E m \in Positions(workflow) : Cardinality(Sources(workflow, m, FALSE)) >= 2

MainDone == call = "main" /\ pc = "done"

\* C7: a workflow without a node whose type contains "SaveImage" or "Save
\* Image" yields no string and the reason no-saveimage, whatever else it holds.
C7_NoSaveImage ==
    (MainDone /\ SaveCandidates = {}) =>
        out = [prompt |-> NoneStr, err |-> "no-saveimage"]

\* a workflow with the whole chain from a previewed image back to an encoder
\* with inline text, and no image-save node
C7_Witness ==
    /\ MainDone
    /\ SaveCandidates = {}
    /\ \E i \in Positions(workflow) :
          /\ workflow.nodes[i].type = T_PreviewImage
          /\ \E e \in Reach(workflow, i, FALSE) :
                /\ IsEncoder(workflow.nodes[e])
                /\ FirstWidgetIsString(workflow.nodes[e])

StageReasons ==
    { "no-saveimage", "no-saveimage-images-link", "no-start-from-saveimage",
      "no-positive-found", "no-clip-encode-upstream", "no-prompt-resolved" }

\* C8: the entry point returns either a non-empty string and no reason, or no
\* string and the name of the first stage that failed, one of the six stage
\* names; no-saveimage says that there is no image-save node, and a save node
\* whose "images" input carries a link never yields no-saveimage-images-link.
C8_FirstFailingStage ==
    MainDone =>
        /\ \/ out.prompt.some /\ out.prompt.v # <<>> /\ out.err = "none"
           \/ ~out.prompt.some /\ out.err \in StageReasons
        /\ out.err = "no-saveimage" <=> SaveCandidates = {}
        /\ ( /\ save # NoNode
             /\ \E s \in 1..Len(workflow.nodes[save].inputs) :
                   /\ workflow.nodes[save].inputs[s].name = "images"
                   /\ workflow.nodes[save].inputs[s].link.k = "id" )
           => out.err # "no-saveimage-images-link"

====
